---------------------------- MODULE Spec2Model ----------------------------
(***************************************************************************)
(* AI Image Resizer: the Express/Sharp backend (/api/process) and the      *)
(* React front end (ImageResizerApp) with its canvas fallback.             *)
(*                                                                         *)
(* Texts are sequences of one-character strings.  Encoded sizes are byte   *)
(* counts.  The client's quality (a fraction 0.1 .. 1) is kept in          *)
(* hundredths, the server's quality is the integer the code holds.         *)
(***************************************************************************)
EXTENDS Integers, Sequences, FiniteSets, TLC

Null == "null"
Undefined == "undefined"

(***************************************************************************)
(* Regular expressions of parseRuleText / parseCustomRule                  *)
(***************************************************************************)
Digits == <<"0", "1", "2", "3", "4", "5", "6", "7", "8", "9">>
UpperCase == <<"A", "B", "C", "D", "E", "F", "G", "H", "I", "J", "K", "L", "M",
               "N", "O", "P", "Q", "R", "S", "T", "U", "V", "W", "X", "Y", "Z">>
LowerCase == <<"a", "b", "c", "d", "e", "f", "g", "h", "i", "j", "k", "l", "m",
               "n", "o", "p", "q", "r", "s", "t", "u", "v", "w", "x", "y", "z">>

Range(s) == {s[i] : i \in DOMAIN s}

\* the /i flag and String.prototype.toLowerCase, one character
ToLower(c) ==
    IF c \in Range(UpperCase)
    THEN LowerCase[CHOOSE i \in DOMAIN UpperCase : UpperCase[i] = c]
    ELSE c

\* the character at position i, or Null past the end
At(t, i) == IF i \in DOMAIN t THEN t[i] ELSE Null

IsDigit(c) == c \in Range(Digits)                       \* \d
IsSpace(c) == c \in {" ", "\t", "\n", "\r"}             \* \s
IsLineEnd(c) == c \in {"\n", "\r"}                      \* what . refuses
IsWord(c) == IsDigit(c) \/ c = "_" \/ ToLower(c) \in Range(LowerCase)  \* \w
\* Characters outside ASCII are written by their code points.  The client's
\* class is [-U+2013] (hyphen, en dash).  The server's file holds the en dash
\* as the three characters U+00E2 U+20AC U+201C, so its class is made of the
\* hyphen and those three (U+00C2 is U+00E2 under the /i flag).
ClientDash(c) == c \in {"-", "U+2013"}
ServerDash(c) == c \in {"-", "U+00E2", "U+00C2", "U+20AC", "U+201C"}
IsSep(c) == c = ":" \/ IsSpace(c)                       \* [:\s]

DigitValue(c) == (CHOOSE i \in DOMAIN Digits : Digits[i] = c) - 1

RECURSIVE DigitsEnd(_, _)
\* \d+ from i, greedy: the position after the run of digits (i when none)
DigitsEnd(t, i) == IF IsDigit(At(t, i)) THEN DigitsEnd(t, i + 1) ELSE i

RECURSIVE SpacesEnd(_, _)
\* \s* from i, greedy
SpacesEnd(t, i) == IF IsSpace(At(t, i)) THEN SpacesEnd(t, i + 1) ELSE i

RECURSIVE SepsEnd(_, _)
\* [:\s]* from i, greedy
SepsEnd(t, i) == IF IsSep(At(t, i)) THEN SepsEnd(t, i + 1) ELSE i

RECURSIVE parseIntFrom(_, _, _, _)
\* parseInt of the digits t[i .. j-1]
parseIntFrom(t, i, j, acc) ==
    IF i >= j THEN acc ELSE parseIntFrom(t, i + 1, j, acc * 10 + DigitValue(t[i]))

parseInt(t, i, j) == parseIntFrom(t, i, j, 0)

\* a literal word w at position i, case-insensitively
Lit(t, i, w) == \A k \in DOMAIN w : ToLower(At(t, i + k - 1)) = w[k]

\* no line terminator in t[a .. b-1]: what .* and .*? may cross
Dot(t, a, b) == \A k \in a..(b - 1) : ~IsLineEnd(t[k])

NoMatch == <<>>

\* the leftmost position of P in 1..Len(t), or 0
Leftmost(t, P(_)) ==
    IF \E i \in DOMAIN t : P(i)
    THEN CHOOSE i \in DOMAIN t : P(i) /\ \A k \in 1..(i - 1) : ~P(k)
    ELSE 0

\* the rightmost position of P in 1..Len(t), or 0
Rightmost(t, P(_)) ==
    IF \E i \in DOMAIN t : P(i)
    THEN CHOOSE i \in DOMAIN t : P(i) /\ \A k \in (i + 1)..Len(t) : ~P(k)
    ELSE 0

\* /(\d+)\s*x\s*(\d+)/i : the two groups of the leftmost match, or NoMatch
MatchCross(t) ==
    LET X(i) == SpacesEnd(t, DigitsEnd(t, i))
        M(i) == /\ IsDigit(t[i])
                /\ ToLower(At(t, X(i))) = "x"
                /\ IsDigit(At(t, SpacesEnd(t, X(i) + 1)))
        i0 == Leftmost(t, M)
        m0 == SpacesEnd(t, X(i0) + 1)
    IN  IF i0 = 0 THEN NoMatch
        ELSE <<parseInt(t, i0, DigitsEnd(t, i0)), parseInt(t, m0, DigitsEnd(t, m0))>>

\* /width[:\s]+(\d+).*height[:\s]+(\d+)/i
MatchWidthHeight(t) ==
    LET P(i) == SepsEnd(t, i + 5)                 \* after width[:\s]+
        Q(i) == DigitsEnd(t, P(i))                \* after (\d+)
        H(h) == /\ Lit(t, h, <<"h", "e", "i", "g", "h", "t">>)
                /\ SepsEnd(t, h + 6) > h + 6
                /\ IsDigit(At(t, SepsEnd(t, h + 6)))
        \* .* is greedy: the last height on the line that the rest matches
        Last(i) == LET G(h) == h >= Q(i) /\ H(h) /\ Dot(t, Q(i), h)
                   IN  Rightmost(t, G)
        M(i) == /\ Lit(t, i, <<"w", "i", "d", "t", "h">>)
                /\ P(i) > i + 5
                /\ Q(i) > P(i)
                /\ Last(i) # 0
        i0 == Leftmost(t, M)
        d0 == SepsEnd(t, Last(i0) + 6)
    IN  IF i0 = 0 THEN NoMatch
        ELSE <<parseInt(t, P(i0), Q(i0)), parseInt(t, d0, DigitsEnd(t, d0))>>

\* (\d+)\s*kb at position m, case-insensitively
NumberKb(t, m) ==
    /\ IsDigit(At(t, m))
    /\ Lit(t, SpacesEnd(t, DigitsEnd(t, m)), <<"k", "b">>)

\* /(\d+)\s*[<dash class>]\s*(\d+)\s*kb/i
MatchRange(t, IsDash(_)) ==
    LET D(i) == SpacesEnd(t, DigitsEnd(t, i))     \* where the dash must be
        M(i) == /\ IsDigit(t[i])
                /\ IsDash(At(t, D(i)))
                /\ NumberKb(t, SpacesEnd(t, D(i) + 1))
        i0 == Leftmost(t, M)
        m0 == SpacesEnd(t, D(i0) + 1)
    IN  IF i0 = 0 THEN NoMatch
        ELSE <<parseInt(t, i0, DigitsEnd(t, i0)), parseInt(t, m0, DigitsEnd(t, m0))>>

\* /size[:\s]+(\d+).*?(\d+)\s*kb/i
MatchSize(t) ==
    LET P(i) == SepsEnd(t, i + 4)                 \* after size[:\s]+
        Q(i) == DigitsEnd(t, P(i))                \* after the greedy (\d+)
        \* .*? is lazy: the first later number that \s*kb follows
        Next2(i) == LET G(m) == m >= Q(i) /\ NumberKb(t, m) /\ Dot(t, Q(i), m)
                    IN  Leftmost(t, G)
        \* else the first group gives its last digit back to the second
        Back(i) == Q(i) - P(i) >= 2 /\ NumberKb(t, Q(i) - 1)
        M(i) == /\ Lit(t, i, <<"s", "i", "z", "e">>)
                /\ P(i) > i + 4
                /\ Q(i) > P(i)
                /\ (Next2(i) # 0 \/ Back(i))
        i0 == Leftmost(t, M)
    IN  IF i0 = 0 THEN NoMatch
        ELSE IF Next2(i0) # 0
             THEN <<parseInt(t, P(i0), Q(i0)),
                    parseInt(t, Next2(i0), DigitsEnd(t, Next2(i0)))>>
             ELSE <<parseInt(t, P(i0), Q(i0) - 1), parseInt(t, Q(i0) - 1, Q(i0))>>

\* /\b(jpg|jpeg|png)\b/i : the group of the leftmost match, lowercased, or Null
MatchFormat(t) ==
    LET Word(i, w) == /\ Lit(t, i, w)
                      /\ ~IsWord(At(t, i - 1))
                      /\ ~IsWord(At(t, i + Len(w)))
        jpg == <<"j", "p", "g">>
        jpeg == <<"j", "p", "e", "g">>
        png == <<"p", "n", "g">>
        M(i) == Word(i, jpg) \/ Word(i, jpeg) \/ Word(i, png)
        i0 == Leftmost(t, M)
    IN  IF i0 = 0 THEN Null
        ELSE IF Word(i0, jpg) THEN "jpg"
        ELSE IF Word(i0, jpeg) THEN "jpeg"
        ELSE "png"

\* a || b of two match results
OrElse(a, b) == IF a # NoMatch THEN a ELSE b

DefaultWidth == 200
DefaultHeight == 230
DefaultMinKb == 20
DefaultMaxKb == 50

\* the object both parsers return
RuleObject(widthMatch, sizeMatch, formatMatch) ==
        [width  |-> IF widthMatch # NoMatch THEN widthMatch[1] ELSE DefaultWidth,
         height |-> IF widthMatch # NoMatch THEN widthMatch[2] ELSE DefaultHeight,
         minKb  |-> IF sizeMatch # NoMatch THEN sizeMatch[1] ELSE DefaultMinKb,
         maxKb  |-> IF sizeMatch # NoMatch THEN sizeMatch[2] ELSE DefaultMaxKb,
         format |-> IF formatMatch # Null THEN formatMatch ELSE "jpg"]

\* parseRuleText (server)
parseRuleText(ruleText) ==
    RuleObject(OrElse(MatchCross(ruleText), MatchWidthHeight(ruleText)),
               OrElse(MatchRange(ruleText, ServerDash), MatchSize(ruleText)),
               MatchFormat(ruleText))

\* parseCustomRule (client)
parseCustomRule(text) ==
    RuleObject(OrElse(MatchCross(text), MatchWidthHeight(text)),
               OrElse(MatchRange(text, ClientDash), MatchSize(text)),
               MatchFormat(text))


(***************************************************************************)
(* Rule tables                                                             *)
(***************************************************************************)
\* A rules value is what the code calls rules: kind "spec" is an object with
\* width, height, minKb, maxKb and format; kind "object" is an object that has
\* none of those properties (each reads as undefined); kind "undefined" is the
\* value undefined, on which a property read throws a TypeError.
AsRules(r) == [kind |-> "spec", width |-> r.width, height |-> r.height,
               minKb |-> r.minKb, maxKb |-> r.maxKb, format |-> r.format]
NoProps(kind) == [kind |-> kind, width |-> 0, height |-> 0,
                  minKb |-> 0, maxKb |-> 0, format |-> Undefined]

Table(w, h, lo, hi) == [kind |-> "spec", width |-> w, height |-> h,
                        minKb |-> lo, maxKb |-> hi, format |-> "jpg"]

\* PRESETS of the client
PresetKeys == {"custom", "photo", "signature", "thumb", "declaration"}
PRESETS ==
    [k \in PresetKeys |->
        CASE k = "custom" -> Table(0, 0, 0, 0)
          [] k = "photo" -> Table(200, 230, 20, 50)
          [] k = "signature" -> Table(140, 60, 10, 20)
          [] k = "thumb" -> Table(140, 60, 20, 50)
          [] k = "declaration" -> Table(800, 300, 50, 100)]

\* Names every object literal inherits from Object.prototype; the ones the
\* model's requests use.
InheritedNames == {"constructor", "toString", "__proto__"}

\* presets[preset] of the server: the literal's own entries, an inherited
\* member for an inherited name, undefined for any other name
presets(preset) ==
    CASE preset = "photo" -> Table(200, 230, 20, 50)
      [] preset = "signature" -> Table(140, 60, 10, 20)
      [] preset = "thumb" -> Table(140, 60, 20, 50)
      [] preset = "declaration" -> Table(800, 300, 50, 100)
      [] preset \in InheritedNames -> NoProps("object")
      [] OTHER -> NoProps("undefined")

\* the text the server parses when ruleText is empty or absent
ServerDefaultText ==
    <<"D", "i", "m", "e", "n", "s", "i", "o", "n", "s", " ", "2", "0", "0",
      "x", "2", "3", "0", " ", "p", "i", "x", "e", "l", "s", ",", " ", "s",
      "i", "z", "e", " ", "2", "0", "-", "5", "0", "K", "B", ",", " ", "J",
      "P", "G", " ", "f", "o", "r", "m", "a", "t">>

\* texts the user types into the custom rule box
TextReversed ==
    <<"3", "0", "-", "2", "0", "k", "b">>
\* a window written with an en dash
TextEnDash ==
    <<"1", "0", "U+2013", "2", "0", "k", "b">>
UserTexts == {<<>>, TextReversed, TextEnDash}

\* texts other HTTP clients send as ruleText
TextZero ==
    <<"w", "i", "d", "t", "h", ":", " ", "6", "4", " ", "h", "e", "i", "g",
      "h", "t", ":", " ", "4", "8", ",", " ", "s", "i", "z", "e", ":", " ",
      "0", " ", "t", "o", " ", "0", "k", "b", " ", "p", "n", "g">>
OtherTexts == {<<>>, TextZero}

\* The two parsers at every text of the model, computed once.
Texts == UserTexts \cup OtherTexts \cup {ServerDefaultText}
ServerParsed == [t \in Texts |-> parseRuleText(t)]
ClientParsed == [t \in Texts |-> parseCustomRule(t)]

\* the server's rule derivation; an absent field arrives as the empty string
\* (both are falsy)
ServerRules(preset, ruleText) ==
    IF preset # "" /\ preset # "custom"
    THEN presets(preset)
    ELSE AsRules(ServerParsed[IF ruleText # <<>> THEN ruleText ELSE ServerDefaultText])

\* getCurrentRules of the client
getCurrentRules(preset, rule) ==
    IF preset = "custom" /\ rule # <<>>
    THEN AsRules(ClientParsed[rule])
    ELSE PRESETS[preset]

(***************************************************************************)
(* Inputs                                                                  *)
(***************************************************************************)
NoFile == [name |-> Null, type |-> <<Null, Null>>, decodable |-> FALSE]

\* A file: its name, its content type (type/subtype) and whether its bytes
\* decode as an image.
File(name, major, minor, ok) ==
    [name |-> name, type |-> <<major, minor>>, decodable |-> ok]

PhotoJpg == File("photo.jpg", "image", "jpeg", TRUE)
BrokenPng == File("broken.png", "image", "png", FALSE)
AnimGif == File("anim.gif", "image", "gif", TRUE)
NotesTxt == File("notes.txt", "text", "plain", FALSE)

\* files the user can pick or drop; the file dialog may also hand over nothing
UserFiles == {PhotoJpg, BrokenPng, AnimGif, NotesTxt, NoFile}

\* what other HTTP clients post to /api/process
OtherPresets == {"", "signature", "passport", "constructor"}
OtherFiles == {PhotoJpg, BrokenPng, NotesTxt, NoFile}

\* file.type.startsWith('image/')
StartsWithImage(file) == file.type[1] = "image"

\* allowedTypes.includes(file.mimetype)
allowedTypes == {<<"image", "jpeg">>, <<"image", "jpg">>, <<"image", "png">>}

\* The byte lengths an encode may return for a window, at and next to its two
\* ends; an encoded image is never empty.
EncodedSizes(rules) ==
    IF rules.kind = "spec"
    THEN {n \in {rules.minKb * 1024 - 1, rules.minKb * 1024,
                 rules.maxKb * 1024, rules.maxKb * 1024 + 1} : n >= 1}
    ELSE {1024}

(***************************************************************************)
(* The quality search                                                      *)
(***************************************************************************)
Max(a, b) == IF a >= b THEN a ELSE b
Min(a, b) == IF a <= b THEN a ELSE b

\* sizeKb = length / 1024 compared with a whole number of Kb, in bytes; a
\* comparison with undefined is false
AboveMax(rules, bytes) == rules.kind = "spec" /\ bytes > rules.maxKb * 1024
BelowMin(rules, bytes) == rules.kind = "spec" /\ bytes < rules.minKb * 1024
WithinRange(rules, bytes) ==
    rules.kind = "spec" /\ bytes <= rules.maxKb * 1024 /\ bytes >= rules.minKb * 1024

\* processImage of the server
ServerStart == 92
ServerDown == 5
ServerUp == 3
ServerMinQuality == 10
ServerMaxQuality == 100
maxAttempts == 20

ServerAdjust(quality, rules, bytes) ==
    IF AboveMax(rules, bytes) THEN quality - ServerDown
    ELSE IF BelowMin(rules, bytes) THEN quality + ServerUp
    ELSE quality

\* the lower bound forgotten
ServerClampUpperOnly(quality) == Min(ServerMaxQuality, quality)

ServerClamp(quality) == Max(ServerMinQuality, Min(ServerMaxQuality, quality))

\* attempts++ forgotten
ServerCountStuck(attempts) == attempts

\* attempts++
ServerCount(attempts) == attempts + 1

\* processClientSide of the client, quality in hundredths
ClientStart == 92
ClientDown == 5
ClientUp == 2
ClientMinQuality == 10
ClientMaxQuality == 100
ClientAttempts == 15

ClientAdjust(quality, rules, bytes) ==
    IF AboveMax(rules, bytes) THEN quality - ClientDown ELSE quality + ClientUp

ClientClamp(quality) == Max(ClientMinQuality, Min(ClientMaxQuality, quality))

\* two attempts counted for one encode
ClientCountByTwo(attempts) == attempts + 2

\* attempts++
ClientCount(attempts) == attempts + 1

\* (length / 1024).toFixed(2), in hundredths of a Kb: the nearest hundredth,
\* the larger one on a tie
toFixed2(bytes) == (bytes * 100 + 512) \div 1024

\* parseFloat(sizeKb) <= rules.maxKb && parseFloat(sizeKb) >= rules.minKb
ServerValid(rules, bytes) ==
    /\ rules.kind = "spec"
    /\ toFixed2(bytes) <= rules.maxKb * 100
    /\ toFixed2(bytes) >= rules.minKb * 100

\* finalSizeKb <= rules.maxKb && finalSizeKb >= rules.minKb
ClientValid(rules, bytes) == WithinRange(rules, bytes)

toUpperCase(format) ==
    CASE format = "jpg" -> "JPG"
      [] format = "jpeg" -> "JPEG"
      [] format = "png" -> "PNG"

(***************************************************************************)
(* State                                                                   *)
(***************************************************************************)
VARIABLES
    selectedPreset, customRule, uploadedFile, originalImage, processedImage,
    processing, result, error, useBackend,   \* useState of ImageResizerApp
    pendingReads,   \* files a FileReader is still reading
    client,         \* the running processWithBackend / processClientSide
    request,        \* the POST /api/process on its way or being served
    response,       \* the answer on its way back
    server,         \* the /api/process handler serving request
    uploads         \* does the uploads directory hold this request's file

ui == <<selectedPreset, customRule, uploadedFile, originalImage, processedImage,
        processing, result, error, useBackend, pendingReads>>
net == <<request, response>>
vars == <<ui, client, net, server, uploads>>

NoRules == NoProps("undefined")

NoResult == [width |-> 0, height |-> 0, sizeKb |-> 0, format |-> Null,
             valid |-> FALSE, blob |-> 0]
NoImage == [url |-> Null, bytes |-> 0]

NoRequest == [from |-> Null, file |-> NoFile, preset |-> "", ruleText |-> <<>>]
NoResponse == [status |-> 0, width |-> 0, height |-> 0, fileSizeKb |-> 0,
               format |-> Null, valid |-> FALSE, imageBase64 |-> 0]
ErrorResponse(status) == [NoResponse EXCEPT !.status = status]

\* pc: "idle", "fetch" (awaiting fetch), "onload" (awaiting img.onload),
\* "loop" (awaiting canvas.toBlob).  file, image, preset, rule: the state the
\* handlers closed over when Process was clicked.  fallback: processClientSide
\* was called from processWithBackend's catch.  resizes, encodes: how many
\* drawImage and toBlob calls this run has made.
ClientIdle == [pc |-> "idle", file |-> NoFile, image |-> NoFile, preset |-> "",
               rule |-> <<>>, fallback |-> FALSE, rules |-> NoRules,
               quality |-> 0, attempts |-> 0, blob |-> 0,
               resizes |-> 0, encodes |-> 0, calls |-> 0]

\* pc: "idle", "handler" (file stored, handler not yet run), "loop" (in
\* processImage), "finish" (processImage returned), "catch".  resizes,
\* encodes: how many resize and encode operations this request has run.
ServerIdle == [pc |-> "idle", rules |-> NoRules, quality |-> 0, attempts |-> 0,
               output |-> 0, resizes |-> 0, encodes |-> 0, invoked |-> FALSE]

MsgInvalidFile == "Please upload a valid image file (JPG, PNG)"
MsgFallback == "Failed to connect to backend. Using client-side processing instead."
MsgClientError == "Error processing image: "

\* useState(...) of ImageResizerApp
UiInit ==
    /\ selectedPreset = "photo"
    /\ customRule = <<>>
    /\ uploadedFile = NoFile
    /\ originalImage = NoFile
    /\ processedImage = NoImage
    /\ processing = FALSE
    /\ result = NoResult
    /\ error = Null
    /\ useBackend = TRUE
    /\ pendingReads = {}

Init ==
    /\ UiInit
    /\ client = ClientIdle
    /\ request = NoRequest
    /\ response = NoResponse
    /\ server = ServerIdle
    /\ uploads = FALSE

(***************************************************************************)
(* The user                                                                *)
(*                                                                         *)
(* The handlers of one click close over the state of the render that was   *)
(* clicked, so what the user does while a run is in progress does not      *)
(* reach that run.  The user modelled here waits for a run to end, sets    *)
(* the rules on a panel that shows no result and no message, and clicks    *)
(* Process once the selected files have been read.                         *)
(***************************************************************************)
\* no run of the page in progress, no request of another client being served
Idle == client.pc = "idle" /\ request = NoRequest
Clean == result = NoResult /\ error = Null

\* <select onChange>
SelectPreset(key) ==
    /\ Idle /\ Clean
    /\ selectedPreset' = key
    /\ UNCHANGED <<customRule, uploadedFile, originalImage, processedImage,
                   processing, result, error, useBackend, pendingReads>>
    /\ UNCHANGED <<client, net, server, uploads>>

\* <textarea onChange>, rendered for the custom preset only
SetCustomRule(text) ==
    /\ Idle /\ Clean
    /\ selectedPreset = "custom"
    /\ customRule' = text
    /\ UNCHANGED <<selectedPreset, uploadedFile, originalImage, processedImage,
                   processing, result, error, useBackend, pendingReads>>
    /\ UNCHANGED <<client, net, server, uploads>>

\* <input type="checkbox" onChange>
ToggleBackend ==
    /\ Idle /\ Clean
    /\ useBackend' = ~useBackend
    /\ UNCHANGED <<selectedPreset, customRule, uploadedFile, originalImage,
                   processedImage, processing, result, error, pendingReads>>
    /\ UNCHANGED <<client, net, server, uploads>>

\* handleFileSelect, from the file input or from handleDrop
handleFileSelect(file) ==
    /\ Idle
    /\ IF file = NoFile \/ ~StartsWithImage(file)
       THEN /\ error' = MsgInvalidFile
            /\ UNCHANGED <<uploadedFile, pendingReads, processedImage, result>>
       ELSE /\ uploadedFile' = file
            /\ pendingReads' = pendingReads \cup {file}
            /\ processedImage' = NoImage
            /\ result' = NoResult
            /\ error' = Null
    /\ UNCHANGED <<selectedPreset, customRule, originalImage, processing, useBackend>>
    /\ UNCHANGED <<client, net, server, uploads>>

\* reader.onload
ReaderLoad(file) ==
    /\ Idle
    /\ file \in pendingReads
    /\ originalImage' = file
    /\ pendingReads' = pendingReads \ {file}
    /\ UNCHANGED <<selectedPreset, customRule, uploadedFile, processedImage,
                   processing, result, error, useBackend>>
    /\ UNCHANGED <<client, net, server, uploads>>

(***************************************************************************)
(* The client                                                              *)
(***************************************************************************)
\* processClientSide up to its first await; c carries what the handler
\* closed over, fallback says who called
EnterClientSide(c, fallback) ==
    IF c.file = NoFile \/ c.image = NoFile
    THEN /\ client' = [c EXCEPT !.pc = "done", !.fallback = fallback, !.calls = @ + 1]
         /\ UNCHANGED processing
    ELSE /\ client' = [c EXCEPT !.pc = "onload", !.fallback = fallback,
                                !.calls = @ + 1,
                                !.rules = getCurrentRules(c.preset, c.rule)]
         /\ processing' = TRUE

Closure == [ClientIdle EXCEPT !.file = uploadedFile, !.image = originalImage,
                              !.preset = selectedPreset, !.rule = customRule]

\* processImage: the Process button, rendered once originalImage is set and
\* disabled while processing
ProcessClick ==
    /\ Idle /\ Clean
    /\ pendingReads = {}
    /\ originalImage # NoFile
    /\ ~processing
    /\ IF useBackend
       THEN \* processWithBackend up to its await fetch
            /\ processing' = TRUE
            /\ error' = Null
            /\ request = NoRequest
            /\ request' = [from |-> "ui", file |-> uploadedFile,
                           preset |-> selectedPreset, ruleText |-> customRule]
            /\ client' = [Closure EXCEPT !.pc = "fetch"]
       ELSE /\ EnterClientSide(Closure, FALSE)
            /\ UNCHANGED <<error, request>>
    /\ UNCHANGED <<selectedPreset, customRule, uploadedFile, originalImage,
                   processedImage, result, useBackend, pendingReads>>
    /\ UNCHANGED <<response, server, uploads>>

\* processWithBackend's catch
BackendCatch ==
    /\ error' = MsgFallback
    /\ EnterClientSide(client, TRUE)
    /\ UNCHANGED <<selectedPreset, customRule, uploadedFile, originalImage,
                   processedImage, result, useBackend, pendingReads>>

\* fetch rejects: the request never reaches the server, or its answer is lost
FetchReject ==
    /\ client.pc = "fetch"
    /\ request.from = "ui"
    /\ \/ server.pc = "idle"
       \/ response # NoResponse
    /\ request' = NoRequest
    /\ response' = NoResponse
    /\ server' = ServerIdle
    /\ BackendCatch
    /\ UNCHANGED uploads

\* fetch resolves: the rest of processWithBackend's try
FetchResolve ==
    /\ client.pc = "fetch"
    /\ request.from = "ui"
    /\ response # NoResponse
    /\ request' = NoRequest
    /\ response' = NoResponse
    /\ server' = ServerIdle
    /\ IF response.status # 200
       THEN BackendCatch
       ELSE /\ processedImage' = [url |-> "data:", bytes |-> response.imageBase64]
            /\ result' = [width |-> response.width, height |-> response.height,
                          sizeKb |-> response.fileSizeKb, format |-> response.format,
                          valid |-> response.valid, blob |-> 0]
            /\ processing' = FALSE
            /\ client' = [client EXCEPT !.pc = "done"]
            /\ UNCHANGED <<selectedPreset, customRule, uploadedFile, originalImage,
                           error, useBackend, pendingReads>>
    /\ UNCHANGED uploads

\* img.onload fires (it never does for data that does not decode): the canvas
\* is sized and drawn, and the first toBlob is called
ImageLoaded ==
    /\ client.pc = "onload"
    /\ client.image.decodable
    /\ client' = [client EXCEPT !.pc = "loop", !.quality = ClientStart,
                                !.attempts = 0, !.resizes = @ + 1]
    /\ UNCHANGED <<ui, net, server, uploads>>

\* setResult and the finally of processClientSide
ClientResult(bytes) ==
    /\ processedImage' = [url |-> "blob:", bytes |-> bytes]
    /\ result' = [width |-> client.rules.width, height |-> client.rules.height,
                  sizeKb |-> toFixed2(bytes),
                  format |-> toUpperCase(client.rules.format),
                  valid |-> ClientValid(client.rules, bytes), blob |-> bytes]
    /\ processing' = FALSE
    /\ UNCHANGED error

\* toBlob calls back: the rest of one turn of the while loop, and what
\* follows the loop when it ends.  A canvas with no pixels gives a null blob,
\* and blob.size then throws.
ClientEncode ==
    /\ client.pc = "loop"
    /\ IF client.rules.width = 0 \/ client.rules.height = 0
       THEN /\ error' = MsgClientError
            /\ processing' = FALSE
            /\ client' = [client EXCEPT !.pc = "done", !.encodes = @ + 1]
            /\ UNCHANGED <<processedImage, result>>
       ELSE \E bytes \in EncodedSizes(client.rules) :
            LET quality == ClientClamp(ClientAdjust(client.quality, client.rules, bytes))
                attempts == ClientCount(client.attempts)
            IN  IF WithinRange(client.rules, bytes)
                THEN /\ client' = [client EXCEPT !.pc = "done", !.blob = bytes,
                                                 !.encodes = @ + 1]
                     /\ ClientResult(bytes)
                ELSE IF attempts < ClientAttempts
                THEN /\ client' = [client EXCEPT !.blob = bytes, !.encodes = @ + 1,
                                                 !.quality = quality,
                                                 !.attempts = attempts]
                     /\ UNCHANGED <<processedImage, result, processing, error>>
                ELSE /\ client' = [client EXCEPT !.pc = "done", !.blob = bytes,
                                                 !.encodes = @ + 1,
                                                 !.quality = quality,
                                                 !.attempts = attempts]
                     /\ ClientResult(bytes)
    /\ UNCHANGED <<selectedPreset, customRule, uploadedFile, originalImage,
                   useBackend, pendingReads>>
    /\ UNCHANGED <<net, server, uploads>>

\* the caller resumes: processWithBackend's finally after its catch, or
\* nothing more
ClientReturn ==
    /\ client.pc = "done"
    /\ processing' = IF client.fallback THEN FALSE ELSE processing
    /\ client' = ClientIdle
    /\ UNCHANGED <<selectedPreset, customRule, uploadedFile, originalImage,
                   processedImage, result, error, useBackend, pendingReads>>
    /\ UNCHANGED <<net, server, uploads>>

(***************************************************************************)
(* The server                                                              *)
(***************************************************************************)
\* the clean-up left out
UnlinkSkipped(stored) == stored

\* fs.unlink(req.file.path): the file is gone afterwards (a second unlink
\* rejects, which the catch block swallows)
Unlink(stored) == FALSE

\* upload.single('image'): the file filter and the disk storage, then the
\* handler's first lines when there is no file
ServerUpload ==
    /\ server.pc = "idle"
    /\ request # NoRequest
    /\ response = NoResponse
    /\ IF request.file = NoFile
       THEN /\ response' = ErrorResponse(400)
            /\ server' = [server EXCEPT !.pc = "sent"]
            /\ UNCHANGED uploads
       ELSE IF request.file.type \notin allowedTypes
       THEN \* cb(new Error(...)): Express answers 500, nothing is stored
            /\ response' = ErrorResponse(500)
            /\ server' = [server EXCEPT !.pc = "sent"]
            /\ UNCHANGED uploads
       ELSE /\ uploads' = TRUE
            /\ server' = [server EXCEPT !.pc = "handler"]
            /\ UNCHANGED response
    /\ UNCHANGED <<ui, client, request>>

\* the handler from its try to the call of processImage; reading rules.width
\* of undefined throws
ServerDerive ==
    /\ server.pc = "handler"
    /\ LET rules == ServerRules(request.preset, request.ruleText)
       IN  IF rules.kind = "undefined"
           THEN server' = [server EXCEPT !.pc = "catch", !.rules = rules]
           ELSE server' = [server EXCEPT !.pc = "loop", !.rules = rules,
                                         !.invoked = TRUE,
                                         !.quality = ServerStart, !.attempts = 0]
    /\ UNCHANGED <<ui, client, net, uploads>>

\* one turn of processImage's while loop: the sharp pipeline reads the file,
\* resizes, encodes; a file that does not decode makes toBuffer reject
ServerEncode ==
    /\ server.pc = "loop"
    /\ IF ~request.file.decodable
       THEN server' = [server EXCEPT !.pc = "catch"]
       ELSE \E bytes \in EncodedSizes(server.rules) :
            LET quality == ServerClamp(ServerAdjust(server.quality, server.rules, bytes))
                attempts == ServerCount(server.attempts)
            IN  IF WithinRange(server.rules, bytes)
                THEN server' = [server EXCEPT !.pc = "finish", !.output = bytes,
                                              !.resizes = @ + 1, !.encodes = @ + 1]
                ELSE server' = [server EXCEPT
                                  !.pc = IF attempts < maxAttempts THEN "loop" ELSE "finish",
                                  !.output = bytes,
                                  !.resizes = @ + 1, !.encodes = @ + 1,
                                  !.quality = quality, !.attempts = attempts]
    /\ UNCHANGED <<ui, client, net, uploads>>

\* sharp(processedBuffer).metadata() and the clean-up of the uploaded file
ServerFinish ==
    /\ server.pc = "finish"
    /\ uploads' = Unlink(uploads)
    /\ server' = [server EXCEPT !.pc = "respond"]
    /\ UNCHANGED <<ui, client, net>>

\* res.json({...}); rules.format.toUpperCase() throws when rules has no format
ServerRespond ==
    /\ server.pc = "respond"
    /\ IF server.rules.format = Undefined
       THEN /\ server' = [server EXCEPT !.pc = "catch"]
            /\ UNCHANGED response
       ELSE /\ response' = [status |-> 200,
                            width |-> server.rules.width,
                            height |-> server.rules.height,
                            fileSizeKb |-> toFixed2(server.output),
                            format |-> toUpperCase(server.rules.format),
                            valid |-> ServerValid(server.rules, server.output),
                            imageBase64 |-> server.output]
            /\ server' = [server EXCEPT !.pc = "sent"]
    /\ UNCHANGED <<ui, client, request, uploads>>

\* the catch block: clean up the file, answer 500
ServerCatch ==
    /\ server.pc = "catch"
    /\ uploads' = Unlink(uploads)
    /\ response' = ErrorResponse(500)
    /\ server' = [server EXCEPT !.pc = "sent"]
    /\ UNCHANGED <<ui, client, request>>

(***************************************************************************)
(* Other HTTP clients                                                      *)
(***************************************************************************)
\* a request from elsewhere; the server serves it as it serves the page's,
\* so these are sent while the page is at rest
OtherRequest(file, preset, ruleText) ==
    /\ UiInit /\ Idle
    /\ request = NoRequest
    /\ server.pc = "idle"
    /\ request' = [from |-> "other", file |-> file, preset |-> preset,
                   ruleText |-> ruleText]
    /\ UNCHANGED <<ui, client, response, server, uploads>>

OtherResponse ==
    /\ request.from = "other"
    /\ response # NoResponse
    /\ request' = NoRequest
    /\ response' = NoResponse
    /\ server' = ServerIdle
    /\ UNCHANGED <<ui, client, uploads>>

Next ==
    \/ \E key \in PresetKeys : SelectPreset(key)
    \/ \E text \in UserTexts : SetCustomRule(text)
    \/ ToggleBackend
    \/ \E file \in UserFiles : handleFileSelect(file)
    \/ \E file \in pendingReads : ReaderLoad(file)
    \/ ProcessClick
    \/ FetchReject
    \/ FetchResolve
    \/ ImageLoaded
    \/ ClientEncode
    \/ ClientReturn
    \/ ServerUpload
    \/ ServerDerive
    \/ ServerEncode
    \/ ServerFinish
    \/ ServerRespond
    \/ ServerCatch
    \/ \E file \in OtherFiles, preset \in OtherPresets, text \in OtherTexts :
          OtherRequest(file, preset, text)
    \/ OtherResponse

Spec == Init /\ [][Next]_vars

\* Every await settles and every callback that can fire does; the network
\* delivers a request or fails it.  The user is under no obligation.
FairSpec ==
    /\ Spec
    /\ WF_vars(ServerUpload \/ FetchReject)
    /\ WF_vars(ServerDerive)
    /\ WF_vars(ServerEncode)
    /\ WF_vars(ServerFinish)
    /\ WF_vars(ServerRespond)
    /\ WF_vars(ServerCatch)
    /\ WF_vars(FetchResolve \/ FetchReject)
    /\ WF_vars(OtherResponse)
    /\ WF_vars(ImageLoaded)
    /\ WF_vars(ClientEncode)
    /\ WF_vars(ClientReturn)

(***************************************************************************)
(* Properties                                                              *)
(***************************************************************************)
\* processImage has been entered for the request being served
ServerSearching == server.pc \in {"loop", "finish", "respond"}
\* processClientSide has reached its loop
ClientSearching == client.resizes > 0

\* C1: the search stays within its attempt budget: the server never encodes
\* more than 20 times for a request nor the client more than 15 times for a
\* run, whatever sizes the encoder returns; while the loop is still running
\* every encode so far was counted as an attempt and the count is below the
\* budget, so the loop is left at the latest with the budget's last encode.
C1_SearchWithinBudget ==
    /\ server.encodes <= maxAttempts
    /\ client.encodes <= ClientAttempts
    /\ server.pc = "loop" => server.encodes = server.attempts /\ server.attempts < maxAttempts
    /\ client.pc = "loop" => client.encodes = client.attempts /\ client.attempts < ClientAttempts

\* the server has used its whole budget without reaching the window and has
\* returned from the loop
C1_Witness ==
    /\ server.pc = "finish"
    /\ server.encodes = maxAttempts
    /\ ~WithinRange(server.rules, server.output)

\* C2: the quality handed to the encoder is always within [10, 100] on the
\* server and within [0.1, 1] (10 .. 100 hundredths) on the client, at the
\* start of the search and after any number of turns, for every window.
C2_QualityClamped ==
    /\ ServerSearching =>
          server.quality >= ServerMinQuality /\ server.quality <= ServerMaxQuality
    /\ ClientSearching =>
          client.quality >= ClientMinQuality /\ client.quality <= ClientMaxQuality

\* with maxKb = 0 every encode is too large: after 17 decreases the quality
\* has been clamped at the lower end and the loop goes on
C2_Witness ==
    /\ server.pc = "loop"
    /\ server.rules.kind = "spec" /\ server.rules.maxKb = 0
    /\ server.attempts > 17
    /\ server.quality = ServerMinQuality

\* C3: the valid flag of every answer (the server's response, the client's
\* result) is true exactly when the final buffer's length / 1024 lies within
\* [minKb, maxKb].
C3_ValidIffWithinRange ==
    /\ response.status = 200 =>
          (response.valid <=> WithinRange(server.rules, response.imageBase64))
    /\ (client.pc = "done" /\ client.blob > 0) =>
          (result.valid <=> WithinRange(client.rules, client.blob))

\* C4: once the handler has answered a request (with success or an error),
\* the uploads directory no longer holds that request's file.
C4_UploadRemoved ==
    (server.pc = "sent" \/ response # NoResponse) => ~uploads

\* a stored file that did not decode: the handler answered 500
C4_Witness ==
    /\ server.pc = "sent"
    /\ response.status = 500
    /\ request.file.type \in allowedTypes
    /\ ~request.file.decodable
    /\ server.invoked

\* C5: no resize or encode runs on a file whose type is not JPEG or PNG, on
\* the server or in the page.
C5_OnlyJpegOrPng ==
    /\ ServerSearching => request.file.type \in allowedTypes
    /\ client.pc = "loop" => /\ client.file.type \in allowedTypes
                             /\ client.image.type \in allowedTypes

\* C6: when the client-side run that follows a failed backend call completes,
\* processClientSide has been called once, processing is false and a result
\* is there.
C6_FallbackGivesResult ==
    (client.pc = "done" /\ client.fallback) =>
        /\ client.calls = 1
        /\ ~processing
        /\ result # NoResult

\* C7: a request whose source does not decode ends with an error surfaced:
\* the server answers 500, the page shows a message with processing false.
C7_DecodeErrorSurfaces ==
    /\ (server.pc = "loop" /\ ~request.file.decodable)
          ~> (response.status = 500)
    /\ (client.pc = "onload" /\ ~client.image.decodable)
          ~> (~processing /\ error = MsgClientError)

\* C8: both searches step by the same share of their scale: down by 5% of it
\* after a too-large encode, up by 3% of it after a too-small one, then clamp.
C8_ProportionalSteps ==
    [][/\ (server.pc = "loop" /\ server'.attempts = server.attempts + 1) =>
            server'.quality =
               ServerClamp(IF AboveMax(server.rules, server'.output)
                           THEN server.quality - (5 * ServerMaxQuality) \div 100
                           ELSE server.quality + (3 * ServerMaxQuality) \div 100)
       /\ (client.pc = "loop" /\ client'.attempts = client.attempts + 1) =>
            client'.quality =
               ClientClamp(IF AboveMax(client.rules, client'.blob)
                           THEN client.quality - (5 * ClientMaxQuality) \div 100
                           ELSE client.quality + (3 * ClientMaxQuality) \div 100)]_vars

\* C9: one fitting operation resizes once, however many times it encodes.
C9_ResizeOnce ==
    /\ server.encodes >= 1 => server.resizes = 1
    /\ client.encodes >= 1 => client.resizes = 1

\* C10: a request whose preset is none of photo, signature, thumb,
\* declaration (nor custom, nor absent) never gets processImage invoked, and
\* its answer is an error.
C10_UnknownPresetRejected ==
    (request # NoRequest
       /\ request.preset \notin {"", "custom", "photo", "signature", "thumb", "declaration"})
    => /\ ~server.invoked
       /\ response # NoResponse => response.status # 200

\* C11: the rules the server derives from the preset and rule text the page
\* sends are the rules the page's own getCurrentRules gives for them, for
\* every preset and every custom rule text, the empty one included.
C11_SameRules ==
    (request.from = "ui" /\ server.invoked) =>
        server.rules = getCurrentRules(client.preset, client.rule)

\* C12: the search stops at the first encode whose size is inside the window
\* and returns that buffer.  While the loop goes on, the encode just made was
\* outside the window (so was every earlier one, each having been the encode
\* just made); the buffer handed back is the last encode, and when it is
\* outside the window the whole budget of encodes has been spent.
C12_FirstHitReturned ==
    /\ (server.pc = "loop" /\ server.encodes >= 1) =>
          ~WithinRange(server.rules, server.output)
    /\ server.pc \in {"finish", "respond"} =>
          \/ WithinRange(server.rules, server.output)
          \/ server.encodes = maxAttempts
    /\ response.status = 200 => response.imageBase64 = server.output
    /\ (client.pc = "loop" /\ client.encodes >= 1) =>
          ~WithinRange(client.rules, client.blob)
    /\ (client.pc = "done" /\ client.blob > 0) =>
          /\ result.blob = client.blob
          /\ \/ WithinRange(client.rules, client.blob)
             \/ client.encodes = ClientAttempts

\* the page's search reached the window after several encodes outside it and
\* stopped there, budget unspent
C12_Witness ==
    /\ client.pc = "done"
    /\ client.encodes > 2 /\ client.encodes < ClientAttempts
    /\ WithinRange(client.rules, client.blob)
    /\ result.blob = client.blob

\* C13: once every FileReader has delivered, originalImage holds the data of
\* uploadedFile, the file selected last, in whatever order the reads of the
\* selected files completed; a run then sends and decodes the same image.
C13_PreviewIsSelectedFile ==
    /\ (pendingReads = {} /\ uploadedFile # NoFile) => originalImage = uploadedFile
    /\ client.pc \in {"fetch", "onload", "loop"} => client.image = client.file

=============================================================================
